---- MODULE Spec2Model ----
(***************************************************************************)
(* A model of skynet-js: the SkyDB layer (src/src/skydb.ts: getFile and    *)
(* setFile over an external registry and an external storage backend) and  *)
(* the skylink parsing / URL composing functions (src/src/utils.ts and the  *)
(* download module).                                                        *)
(***************************************************************************)
EXTENDS Integers, Sequences, FiniteSets, TLC

(***************************************************************************)
(* Bounds of the model.                                                     *)
(***************************************************************************)
\* number of concurrent callers of getFile / setFile
NumWriters == 2
\* number of calls made in all, by all the callers together
MaxCalls == 3

(***************************************************************************)
(* Program constants.                                                       *)
(***************************************************************************)
FILEID_V1 == 1
FileTypeInvalid == 0
FileTypePublicUnencrypted == 1

None == [none |-> TRUE]

Procs == 1..NumWriters
Users == {"alice"}
Files == {"content1", "content2"}
ApplicationIDs == {"app"}
Filenames == {"f.txt"}
FileTypes == {FileTypeInvalid, FileTypePublicUnencrypted}

\* NewFileID takes the input parameters and returns a FileID.
NewFileID(applicationID, fileType, filename) ==
  [version |-> FILEID_V1, applicationID |-> applicationID,
   fileType |-> fileType, filename |-> filename]

FileIDs == {NewFileID(a, t, f) : a \in ApplicationIDs, t \in FileTypes, f \in Filenames}

(***************************************************************************)
(* Strings are sequences of characters, a character being a string of      *)
(* length one.                                                              *)
(***************************************************************************)
LowerLetters == <<"a", "b", "c", "d", "e", "f", "g", "h", "i", "j", "k", "l", "m",
                  "n", "o", "p", "q", "r", "s", "t", "u", "v", "w", "x", "y", "z">>
UpperLetters == <<"A", "B", "C", "D", "E", "F", "G", "H", "I", "J", "K", "L", "M",
                  "N", "O", "P", "Q", "R", "S", "T", "U", "V", "W", "X", "Y", "Z">>
DigitChars == <<"0", "1", "2", "3", "4", "5", "6", "7", "8", "9">>

\* F applied to the value of x (of x and y): the argument is evaluated once,
\* however often F refers to it
With(x, F(_)) == CHOOSE r \in {F(v) : v \in {x}} : TRUE
With2(x, y, F(_, _)) == CHOOSE r \in {F(v, w) : v \in {x}, w \in {y}} : TRUE

Range(s) == {s[i] : i \in DOMAIN s}
Letters == Range(LowerLetters) \cup Range(UpperLetters)
Digits == Range(DigitChars)

\* String.prototype.toLowerCase
ToLowerChar(c) ==
  IF c \in Range(UpperLetters)
  THEN LowerLetters[CHOOSE i \in DOMAIN UpperLetters : UpperLetters[i] = c]
  ELSE c
toLowerCase(s) == With(s, LAMBDA str : [i \in DOMAIN str |-> ToLowerChar(str[i])])

\* String.prototype.startsWith, endsWith, slice(n), indexOf (0: not found)
startsWith(s, prefix) == Len(prefix) <= Len(s) /\ SubSeq(s, 1, Len(prefix)) = prefix
endsWith(s, suffix) ==
  Len(suffix) <= Len(s) /\ SubSeq(s, Len(s) - Len(suffix) + 1, Len(s)) = suffix
slice(s, n) == SubSeq(s, n + 1, Len(s))
indexOf(s, c) ==
  With(s, LAMBDA str :
    IF c \in Range(str)
    THEN CHOOSE i \in DOMAIN str : str[i] = c /\ \A j \in 1..(i - 1) : str[j] # c
    ELSE 0)

Slash == <<"/">>
Empty == <<>>
\* the value null of JavaScript, where a string is expected: a sequence that
\* is no string (its element is not a character)
Null == <<"null">>

RECURSIVE trimPrefix(_, _)
trimPrefix(s, p) ==
  With2(s, p, LAMBDA str, prefix :
    IF prefix # Empty /\ startsWith(str, prefix)
    THEN trimPrefix(slice(str, Len(prefix)), prefix)
    ELSE str)

RECURSIVE trimSuffix(_, _)
trimSuffix(s, p) ==
  With2(s, p, LAMBDA str, suffix :
    IF suffix # Empty /\ endsWith(str, suffix)
    THEN trimSuffix(SubSeq(str, 1, Len(str) - Len(suffix)), suffix)
    ELSE str)

trimForwardSlash(str) == trimPrefix(trimSuffix(str, Slash), Slash)

\* trimUriPrefix without its first branch: only the prefix itself is cut
trimUriPrefixShortOnly(s, p) ==
  With2(s, p, LAMBDA str, prefix :
    IF startsWith(str, prefix) THEN slice(str, Len(prefix)) ELSE str)
trimUriPrefix(s, p) ==
  With2(s, p, LAMBDA str, prefix :
    LET longPrefix == prefix \o <<"/", "/">>
    IN IF startsWith(str, longPrefix) THEN slice(str, Len(longPrefix))
       ELSE IF startsWith(str, prefix) THEN slice(str, Len(prefix))
       ELSE str)

uriHandshakePrefix == <<"h", "n", "s", ":">>
uriSkynetPrefix == <<"s", "i", "a", ":">>
defaultSkynetPortalUrl ==
  <<"h", "t", "t", "p", "s", ":", "/", "/", "s", "i", "a", "s", "k", "y", ".", "n", "e", "t">>

(***************************************************************************)
(* url-parse, as parseSkylink and addUrlQuery use it: parse(address, {})    *)
(* and parse(address, true) without a base location.                        *)
(***************************************************************************)
\* the characters of a protocol after its first letter: [a-z0-9.+-]
ProtocolChars == Letters \cup Digits \cup {".", "+", "-"}

\* the length of the protocol /^([a-z][a-z0-9.+-]*:)?/i finds (0: none)
ProtocolLength(address) ==
  With(indexOf(address, ":"), LAMBDA colon :
    IF /\ colon > 1
       /\ address[1] \in Letters
       /\ \A j \in 2..(colon - 1) : address[j] \in ProtocolChars
    THEN colon
    ELSE 0)

\* extractProtocol: the protocol, whether "//" follows it, and the rest
extractProtocol(address) ==
  With(ProtocolLength(address), LAMBDA n :
    LET after == slice(address, n)
        slashes == startsWith(after, <<"/", "/">>)
    IN [protocol |-> toLowerCase(SubSeq(address, 1, n)),
        slashes |-> slashes,
        rest |-> IF slashes THEN slice(after, Len(<<"/", "/">>)) ELSE after])

\* the part of s from the first c on, or the empty string
FromFirst(s, c) ==
  With2(s, indexOf(s, c), LAMBDA str, at : IF at = 0 THEN Empty ELSE slice(str, at - 1))
\* the part of s before the first c, or all of s
BeforeFirst(s, c) ==
  With2(s, indexOf(s, c), LAMBDA str, at : IF at = 0 THEN str ELSE SubSeq(str, 1, at - 1))

\* the port /:(\d+)$/ finds at the end of a host: its length with the colon
PortLength(h) ==
  With(h, LAMBDA host :
    LET ends == {n \in 2..Len(host) :
                   /\ host[Len(host) - n + 1] = ":"
                   /\ \A j \in (Len(host) - n + 2)..Len(host) : host[j] \in Digits}
    IN IF ends = {} THEN 0 ELSE CHOOSE n \in ends : TRUE)

\* the parts of a URL: the hash is cut off first, then the query, then the
\* path name (from the first "/" when "//" followed the protocol, otherwise
\* all that is left), then user and host
UrlParse(address) ==
  With(extractProtocol(address), LAMBDA ex :
  With(BeforeFirst(ex.rest, "#"), LAMBDA r1 :
  With(BeforeFirst(r1, "?"), LAMBDA r2 :
  With(IF ex.slashes THEN BeforeFirst(r2, "/") ELSE Empty, LAMBDA r3 :
  With(toLowerCase(IF indexOf(r3, "@") = 0 THEN r3 ELSE slice(r3, indexOf(r3, "@"))),
       LAMBDA host :
    [protocol |-> ex.protocol, slashes |-> ex.slashes,
     auth |-> IF indexOf(r3, "@") = 0 THEN Empty ELSE SubSeq(r3, 1, indexOf(r3, "@") - 1),
     host |-> host,
     hostname |-> SubSeq(host, 1, Len(host) - PortLength(host)),
     pathname |-> IF ex.slashes THEN FromFirst(r2, "/") ELSE r2,
     query |-> FromFirst(r1, "?"),
     hash |-> FromFirst(ex.rest, "#")])))))

(***************************************************************************)
(* parseSkylink (utils.ts)                                                  *)
(***************************************************************************)
SkylinkLength == 46
SkylinkSubdomainLength == 55

\* [a-zA-Z0-9_-] and [a-z0-9_-]
SkylinkChars == Letters \cup Digits \cup {"_", "-"}
SkylinkSubdomainChars == Range(LowerLetters) \cup Digits \cup {"_", "-"}

\* SKYLINK_DIRECT_REGEX: ^([a-zA-Z0-9_-]{46})$
MatchDirect(s) ==
  With(s, LAMBDA str : Len(str) = SkylinkLength /\ \A i \in DOMAIN str : str[i] \in SkylinkChars)

\* SKYLINK_PATHNAME_REGEX: ^/?([a-zA-Z0-9_-]{46})((/.*)?)$ ; groups 1 and 2
MatchPathname(str) ==
  With(IF startsWith(str, Slash) THEN slice(str, 1) ELSE str, LAMBDA body :
    LET tail == slice(body, SkylinkLength)
    IN IF /\ Len(body) >= SkylinkLength
          /\ MatchDirect(SubSeq(body, 1, SkylinkLength))
          /\ (tail = Empty \/ startsWith(tail, Slash))
       THEN [matched |-> TRUE, skylink |-> SubSeq(body, 1, SkylinkLength), path |-> tail]
       ELSE [matched |-> FALSE])

\* SKYLINK_SUBDOMAIN_REGEX: ^([a-z0-9_-]{55})(\..*)?$ ; group 1
MatchSubdomain(h) ==
  With(h, LAMBDA hostname :
    LET tail == slice(hostname, SkylinkSubdomainLength)
    IN IF /\ Len(hostname) >= SkylinkSubdomainLength
          /\ \A i \in 1..SkylinkSubdomainLength : hostname[i] \in SkylinkSubdomainChars
          /\ (tail = Empty \/ startsWith(tail, <<".">>))
       THEN [matched |-> TRUE, skylink |-> SubSeq(hostname, 1, SkylinkSubdomainLength)]
       ELSE [matched |-> FALSE])

\* what a function returns or throws
Return(v) == [throws |-> FALSE, value |-> v]
Throw(msg) == [throws |-> TRUE, error |-> msg]

NoOpts == [includePath |-> FALSE, onlyPath |-> FALSE, fromSubdomain |-> FALSE]

parseSkylinkBase32(skylinkStr, opts) ==
  With(UrlParse(skylinkStr), LAMBDA parsed :
  With(MatchSubdomain(parsed.hostname), LAMBDA matchHostname :
    IF matchHostname.matched
    THEN IF opts.onlyPath THEN parsed.pathname ELSE matchHostname.skylink
    ELSE Null))

\* the option checks parseSkylink starts with: the error it throws, or "none"
ParseOptionsErrorFirstOnly(opts) ==
  IF opts.includePath /\ opts.onlyPath
  THEN "The includePath and onlyPath options cannot both be set"
  ELSE "none"
ParseOptionsError(opts) ==
  IF opts.includePath /\ opts.onlyPath
  THEN "The includePath and onlyPath options cannot both be set"
  ELSE IF opts.includePath /\ opts.fromSubdomain
  THEN "The includePath and fromSubdomain options cannot both be set"
  ELSE "none"

\* parseSkylink once the prefix is trimmed and no direct match was found
ParseSkylinkInUrl(str, opts) ==
  With(UrlParse(str), LAMBDA parsed :
  With(trimSuffix(parsed.pathname, Slash), LAMBDA skylinkAndPath :
  With(MatchPathname(skylinkAndPath), LAMBDA matchPathname :
    LET path == IF matchPathname.path = Slash THEN Empty ELSE matchPathname.path
    IN IF ~matchPathname.matched THEN Null
       ELSE IF opts.includePath THEN trimForwardSlash(skylinkAndPath)
       ELSE IF opts.onlyPath THEN path
       ELSE matchPathname.skylink)))

parseSkylink(skylinkStr, opts) ==
  IF ParseOptionsError(opts) # "none" THEN Throw(ParseOptionsError(opts))
  ELSE IF opts.fromSubdomain THEN Return(parseSkylinkBase32(skylinkStr, opts))
  ELSE With(trimUriPrefix(skylinkStr, uriSkynetPrefix), LAMBDA str :
         IF MatchDirect(str)
         THEN Return(IF opts.onlyPath THEN Empty ELSE str)
         ELSE Return(ParseSkylinkInUrl(str, opts)))

\* the skylink of the tests (download.test.ts) and its base32 form
testSkylink ==
  <<"X", "A", "B", "v", "i", "7", "J", "t", "J", "b", "Q", "S", "M", "A", "c",
  "D", "w", "n", "U", "n", "m", "p", "2", "F", "K", "D", "P", "j", "g", "8",
  "_", "t", "T", "T", "F", "P", "4", "B", "w", "M", "S", "x", "V", "d", "E",
  "g">>
testSkylinkBase32 ==
  <<"b", "g", "0", "6", "v", "2", "t", "i", "d", "k", "i", "r", "8", "4", "h",
  "g", "0", "s", "1", "s", "4", "t", "9", "7", "j", "a", "e", "o", "a", "a",
  "1", "j", "s", "e", "1", "s", "v", "r", "a", "d", "6", "5", "7", "u", "0",
  "7", "0", "c", "9", "c", "a", "l", "q", "4", "g">>

(***************************************************************************)
(* convertSkylinkToBase32 (utils.ts): base64-js toByteArray, then           *)
(* base32-encode with the RFC4648-HEX alphabet, unpadded, in lower case.     *)
(***************************************************************************)
Base64Alphabet ==
  UpperLetters \o LowerLetters \o DigitChars \o <<"+", "/">>
\* RFC4648-HEX: 0-9 and A-V
Base32HexAlphabet == DigitChars \o SubSeq(UpperLetters, 1, 22)
Base32Alphabet == UpperLetters \o <<"2", "3", "4", "5", "6", "7">>

\* revLookup of base64-js: "-" and "_" stand for 62 and 63 as "+" and "/" do
Base64Value(c) ==
  IF c = "-" THEN Len(Base64Alphabet) - 2
  ELSE IF c = "_" THEN Len(Base64Alphabet) - 1
  ELSE (CHOOSE i \in DOMAIN Base64Alphabet : Base64Alphabet[i] = c) - 1

\* the number of bytes toByteArray decodes from `len` characters padded with "="
DecodedLength(len) ==
  LET placeHolders == 4 - (len % 4)
  IN (((len + placeHolders) * 3) \div 4) - placeHolders

\* bit i (from 1) of the decoded bytes
Power2(n) == IF n = 0 THEN 1 ELSE IF n = 1 THEN 2 ELSE IF n = 2 THEN 4
             ELSE IF n = 3 THEN 8 ELSE IF n = 4 THEN 16 ELSE 32
DecodedBit(str, i) ==
  IF i > 8 * DecodedLength(Len(str)) THEN 0
  ELSE (Base64Value(str[((i - 1) \div 6) + 1]) \div Power2(5 - ((i - 1) % 6))) % 2

\* the base32 digits of the decoded bytes: five bits each, the last group
\* filled with zero bits
Base32Digits(s) ==
  With(s, LAMBDA str :
    LET nbits == 8 * DecodedLength(Len(str))
        ndigits == (nbits + 4) \div 5
    IN [k \in 1..ndigits |->
          16 * DecodedBit(str, 5 * (k - 1) + 1) + 8 * DecodedBit(str, 5 * (k - 1) + 2)
          + 4 * DecodedBit(str, 5 * (k - 1) + 3) + 2 * DecodedBit(str, 5 * (k - 1) + 4)
          + DecodedBit(str, 5 * (k - 1) + 5)])

base32Encode(str, alphabet) ==
  With(Base32Digits(str), LAMBDA digits : [k \in DOMAIN digits |-> alphabet[digits[k] + 1]])

\* convertSkylinkToBase32 without its toLowerCase
convertSkylinkToBase32UpperCase(str) == base32Encode(str, Base32HexAlphabet)
convertSkylinkToBase32Plain(str) == toLowerCase(base32Encode(str, Base32Alphabet))
convertSkylinkToBase32(str) == toLowerCase(base32Encode(str, Base32HexAlphabet))

(***************************************************************************)
(* encodeURIComponent and decodeURIComponent, for the characters of the     *)
(* model.                                                                   *)
(***************************************************************************)
UnreservedChars == Letters \cup Digits \cup {"-", "_", ".", "!", "~", "*", "'", "(", ")"}
EscapedChars == <<"?", "/", "#", "&", "=", " ", ":", "%", "+", "@">>
EscapeCodes ==
  << <<"%", "3", "F">>, <<"%", "2", "F">>, <<"%", "2", "3">>, <<"%", "2", "6">>,
     <<"%", "3", "D">>, <<"%", "2", "0">>, <<"%", "3", "A">>, <<"%", "2", "5">>,
     <<"%", "2", "B">>, <<"%", "4", "0">> >>

EncodeChar(c) ==
  IF c \in UnreservedChars THEN <<c>>
  ELSE EscapeCodes[CHOOSE i \in DOMAIN EscapedChars : EscapedChars[i] = c]

RECURSIVE encodeURIComponent(_)
encodeURIComponent(s) ==
  With(s, LAMBDA str :
    IF str = Empty THEN Empty ELSE EncodeChar(Head(str)) \o encodeURIComponent(Tail(str)))

\* encodeURI leaves the characters that have a meaning in a URL as they are
UriReservedChars == {";", "/", "?", ":", "@", "&", "=", "+", "$", ",", "#"}
RECURSIVE encodeURI(_)
encodeURI(s) ==
  With(s, LAMBDA str :
    IF str = Empty THEN Empty
    ELSE (IF Head(str) \in UriReservedChars THEN <<Head(str)>> ELSE EncodeChar(Head(str)))
         \o encodeURI(Tail(str)))

RECURSIVE decodeURIComponent(_)
decodeURIComponent(s) ==
  With(s, LAMBDA str :
    IF str = Empty THEN Empty
    ELSE IF Head(str) = "%"
    THEN With(SubSeq(str, 1, 3), LAMBDA code :
           <<EscapedChars[CHOOSE i \in DOMAIN EscapeCodes : EscapeCodes[i] = code]>>
           \o decodeURIComponent(slice(str, 3)))
    ELSE <<Head(str)>> \o decodeURIComponent(Tail(str)))

\* str.split(sep) for a separator of one character, and join
RECURSIVE split(_, _)
split(s, sep) ==
  With2(s, indexOf(s, sep), LAMBDA str, at :
    IF at = 0 THEN <<str>>
    ELSE <<SubSeq(str, 1, at - 1)>> \o split(slice(str, at), sep))

RECURSIVE join(_, _)
join(ps, sep) ==
  With(ps, LAMBDA parts :
    IF parts = <<>> THEN Empty
    ELSE IF Len(parts) = 1 THEN parts[1]
    ELSE parts[1] \o sep \o join(Tail(parts), sep))

\* the encoding getSkylinkUrl gives the path option: every element of the
\* path is encoded on its own
EncodePathAsUri(path) == encodeURI(path)
EncodePath(path) ==
  With(split(path, "/"), LAMBDA elements :
    join([i \in DOMAIN elements |-> encodeURIComponent(elements[i])], Slash))

(***************************************************************************)
(* Query objects: the keys of an object in the order of their insertion,    *)
(* each with its value, a string or the boolean true.                       *)
(***************************************************************************)
StringValue(str) == [str |-> str]
TrueValue == [bool |-> TRUE]
ValueToString(v) == IF "bool" \in DOMAIN v THEN <<"t", "r", "u", "e">> ELSE v.str

HasKey(obj, key) == \E i \in DOMAIN obj : obj[i].k = key
ValueOf(obj, key) == obj[CHOOSE i \in DOMAIN obj : obj[i].k = key].v

\* obj[key] = value: an old key keeps its place, a new key comes last
SetKey(o, key, value) ==
  With(o, LAMBDA obj :
    IF HasKey(obj, key)
    THEN [i \in DOMAIN obj |-> IF obj[i].k = key THEN [k |-> key, v |-> value] ELSE obj[i]]
    ELSE Append(obj, [k |-> key, v |-> value]))

\* { ...a, ...b }
RECURSIVE Spread(_, _)
Spread(a, b) ==
  With2(a, b, LAMBDA x, y : IF y = <<>> THEN x ELSE Spread(SetKey(x, y[1].k, y[1].v), Tail(y)))
\* { ...b, ...a }: the spread with its operands the wrong way round
SpreadSwapped(a, b) == Spread(b, a)

AttachmentKey == <<"a", "t", "t", "a", "c", "h", "m", "e", "n", "t">>

\* querystringify: decode of a key or a value ("+" is a space)
QueryDecode(s) ==
  With(s, LAMBDA str :
    decodeURIComponent([i \in DOMAIN str |-> IF str[i] = "+" THEN " " ELSE str[i]]))

\* the length of the longest prefix of str made of characters not in stop
RunLength(s, stop) ==
  With(s, LAMBDA str :
  With({i \in DOMAIN str : str[i] \in stop}, LAMBDA stops :
    IF stops = {} THEN Len(str) ELSE (CHOOSE i \in stops : \A j \in stops : i <= j) - 1))

\* querystringify parse: the matches of /([^=?#&]+)=?([^&]*)/g, the first
\* value of a key winning
RECURSIVE QueryParseInto(_, _)
QueryParseInto(o, s) ==
  With2(o, s, LAMBDA obj, str :
    IF str = Empty THEN obj
    ELSE IF Head(str) \in {"=", "?", "#", "&"} THEN QueryParseInto(obj, Tail(str))
    ELSE With(RunLength(str, {"=", "?", "#", "&"}), LAMBDA klen :
         With(QueryDecode(SubSeq(str, 1, klen)), LAMBDA key :
         With(slice(str, klen), LAMBDA r1 :
         With(IF startsWith(r1, <<"=">>) THEN Tail(r1) ELSE r1, LAMBDA r2 :
         With(RunLength(r2, {"&"}), LAMBDA vlen :
         With(QueryDecode(SubSeq(r2, 1, vlen)), LAMBDA value :
           QueryParseInto(IF HasKey(obj, key) THEN obj
                          ELSE Append(obj, [k |-> key, v |-> StringValue(value)]),
                          slice(r2, vlen)))))))))
QueryParse(str) == QueryParseInto(<<>>, str)

\* querystringify stringify, without prefix
QueryStringify(o) ==
  With(o, LAMBDA obj :
    join([i \in DOMAIN obj |->
            encodeURIComponent(obj[i].k) \o <<"=">> \o encodeURIComponent(ValueToString(obj[i].v))],
         <<"&">>))

(***************************************************************************)
(* addSubdomain, makeUrl (url-join) and addUrlQuery (utils.ts)              *)
(***************************************************************************)
\* new URL(url) with the host name prefixed; toString; one "/" at the end cut
addSubdomain(url, subdomain) ==
  With(UrlParse(url), LAMBDA urlObj :
  With(urlObj.protocol \o <<"/", "/">> \o toLowerCase(subdomain) \o <<".">> \o urlObj.host
       \o (IF urlObj.pathname = Empty THEN Slash ELSE urlObj.pathname)
       \o urlObj.query \o urlObj.hash,
       LAMBDA str :
    IF endsWith(str, Slash) THEN SubSeq(str, 1, Len(str) - 1) ELSE str))

\* url-join: replace(/^([^/:]+):\/*/, '$1://') on the first part
JoinProtocol(s) ==
  With2(s, RunLength(s, {"/", ":"}), LAMBDA str, n :
    IF n > 0 /\ n < Len(str) /\ str[n + 1] = ":"
    THEN SubSeq(str, 1, n) \o <<":", "/", "/">> \o trimPrefix(slice(str, n + 1), Slash)
    ELSE str)

\* url-join: replace(/\/(\?|&|#[^!])/g, '$1')
JoinCutSlashes(s) ==
  With(s, LAMBDA str :
    LET cut(i) == /\ str[i] = "/"
                  /\ i < Len(str)
                  /\ \/ str[i + 1] \in {"?", "&"}
                     \/ str[i + 1] = "#" /\ i + 1 < Len(str) /\ str[i + 2] # "!"
        Kept(i) == ~cut(i)
    IN With(SelectSeq([i \in DOMAIN str |-> i], Kept), LAMBDA kept :
         [n \in DOMAIN kept |-> str[kept[n]]]))

\* url-join: every "?" after the first becomes "&"
JoinQueryMarks(s) ==
  With2(s, indexOf(s, "?"), LAMBDA str, first :
    [i \in DOMAIN str |-> IF str[i] = "?" /\ i # first THEN "&" ELSE str[i]])

\* urljoin(acc, cur)
urljoin(acc, cur) ==
  With2(JoinProtocol(acc), trimPrefix(cur, Slash), LAMBDA first, c :
    LET parts == IF cur = Empty
                 THEN IF first = Empty THEN <<>> ELSE <<trimSuffix(first, Slash)>>
                 ELSE (IF first = Empty THEN <<>> ELSE <<trimSuffix(first, Slash)>>)
                      \o <<IF endsWith(c, Slash) THEN trimSuffix(c, Slash) \o Slash ELSE c>>
    IN JoinQueryMarks(JoinCutSlashes(join(parts, Slash))))

RECURSIVE makeUrlFrom(_, _)
makeUrlFrom(a, rest) ==
  With2(a, rest, LAMBDA acc, args :
    IF args = <<>> THEN acc ELSE makeUrlFrom(urljoin(acc, Head(args)), Tail(args)))
makeUrl(args) == With(args, LAMBDA list : makeUrlFrom(Head(list), Tail(list)))

\* Url.toString of url-parse, with the query an object
UrlToString(url, queryObject) ==
  With2(url, QueryStringify(queryObject), LAMBDA u, query :
    u.protocol \o (IF u.slashes THEN <<"/", "/">> ELSE Empty)
    \o (IF u.auth = Empty THEN Empty ELSE u.auth \o <<"@">>)
    \o u.host \o u.pathname
    \o (IF query = Empty THEN Empty ELSE <<"?">> \o query)
    \o u.hash)

addUrlQuerySwapped(url, query) ==
  With(UrlParse(url), LAMBDA parsed :
    UrlToString(parsed, SpreadSwapped(QueryParse(parsed.query), query)))
addUrlQuery(url, query) ==
  With(UrlParse(url), LAMBDA parsed :
    UrlToString(parsed, Spread(QueryParse(parsed.query), query)))

(***************************************************************************)
(* getSkylinkUrl and downloadFile (the download module)                     *)
(***************************************************************************)
\* { ...a, ...b } of two option objects
MergeOptions(a, b) ==
  [k \in DOMAIN a \cup DOMAIN b |-> IF k \in DOMAIN b THEN b[k] ELSE a[k]]

defaultOptions(endpointPath) ==
  [endpointPath |-> endpointPath, APIKey |-> Empty, customUserAgent |-> Empty]
defaultDownloadOptions == defaultOptions(Slash)

\* option values: a string, a number, or a boolean
StringOption(str) == [type |-> "string", str |-> str]
NumberOption(n) == [type |-> "number", n |-> n]
BooleanOption(b) == [type |-> "boolean", b |-> b]
\* whether an option is set to a value that JavaScript takes for true
Truthy(opts, name) ==
  /\ name \in DOMAIN opts
  /\ IF opts[name].type = "boolean" THEN opts[name].b
     ELSE IF opts[name].type = "string" THEN opts[name].str # Empty
     ELSE opts[name].n # 0

\* the query getSkylinkUrl appends: opts.query ?? {}, with attachment set to
\* true when opts.download
DownloadQuery(opts) ==
  LET query == IF "query" \in DOMAIN opts THEN opts.query ELSE <<>>
  IN IF Truthy(opts, "download") THEN SetKey(query, AttachmentKey, TrueValue) ELSE query

getSkylinkUrl(portalUrl, skylinkStr, customOptions) ==
  With(MergeOptions(defaultDownloadOptions, customOptions), LAMBDA opts :
  With2(DownloadQuery(opts),
        IF Truthy(opts, "path") /\ opts.path.type = "string"
        THEN EncodePath(opts.path.str) ELSE Empty,
        LAMBDA query, path :
    IF Truthy(opts, "path") /\ opts.path.type # "string"
    THEN Throw("opts.path has to be a string")
    ELSE IF Truthy(opts, "subdomain")
    THEN With2(parseSkylink(skylinkStr, [NoOpts EXCEPT !.onlyPath = TRUE]).value,
               parseSkylink(skylinkStr, NoOpts).value,
               LAMBDA skylinkPath, skylink :
           IF skylink = Null THEN Throw("Could not get skylink out of input")
           ELSE Return(addUrlQuery(
                  makeUrl(<<addSubdomain(portalUrl, convertSkylinkToBase32(skylink)),
                            skylinkPath, path>>),
                  query)))
    ELSE With(parseSkylink(skylinkStr, [NoOpts EXCEPT !.includePath = TRUE]).value,
              LAMBDA skylink :
           IF skylink = Null THEN Throw("Could not get skylink out of input")
           ELSE Return(addUrlQuery(makeUrl(<<portalUrl, opts.endpointPath, skylink, path>>),
                                   query)))))

downloadFile(portalUrl, skylinkStr, customOptions) ==
  getSkylinkUrl(portalUrl, skylinkStr,
    MergeOptions(MergeOptions(defaultDownloadOptions, customOptions), [download |-> BooleanOption(TRUE)]))

openFile(portalUrl, skylinkStr, customOptions) ==
  getSkylinkUrl(portalUrl, skylinkStr, MergeOptions(defaultDownloadOptions, customOptions))

defaultDownloadHnsOptions ==
  MergeOptions(defaultOptions(<<"/", "h", "n", "s">>),
               [hnsSubdomain |-> StringOption(<<"h", "n", "s">>)])

getHnsUrl(portalUrl, domain, customOptions) ==
  With(MergeOptions(defaultDownloadHnsOptions, customOptions), LAMBDA opts :
  With2(DownloadQuery(opts), trimUriPrefix(domain, uriHandshakePrefix), LAMBDA query, name :
    Return(addUrlQuery(
      IF Truthy(opts, "subdomain")
      THEN addSubdomain(addSubdomain(portalUrl, opts.hnsSubdomain.str), name)
      ELSE makeUrl(<<portalUrl, opts.endpointPath, name>>),
      query))))

(***************************************************************************)
(* JavaScript numbers: a revision is a number, which may be NaN.            *)
(***************************************************************************)
Num(n) == [isNaN |-> FALSE, n |-> n]
NaN == [isNaN |-> TRUE, n |-> 0]
Undefined == [undefined |-> TRUE]

\* Number.prototype.toString, String.prototype.toString
toString(x) == <<"toString", x>>

\* property read: a property the object does not have reads as undefined
GetProp(obj, name) == IF name \in DOMAIN obj THEN obj[name] ELSE Undefined

\* ToNumeric of the operand of ++ : undefined converts to NaN
ToNumeric(x) == IF x = Undefined THEN NaN ELSE x

\* the value of the expression  x++  : the old value, converted to a number
PostIncrementValue(x) == ToNumeric(x)

\* hashAll of ./crypto: a cumulative hash of its arguments, in order; modelled
\* as an injective function of the argument list
hashAll(args) == <<"hash", args>>

\* User.sign: an ed25519 signature of the message with the user's secret key
Sign(user, message) == [signer |-> user, message |-> message]

\* whether the signature of a registry entry verifies against the user's key
Verifies(user, entry) ==
  entry.signature =
    Sign(user, hashAll(<<entry.value.tweak, entry.value.data,
                         toString(entry.value.revision)>>))

\* the tweak setFile builds from the fileID
Tweak(fileID) ==
  hashAll(<<toString(fileID.version), toString(fileID.applicationID),
            toString(fileID.fileType), toString(fileID.filename)>>)

\* uploadFile: the skylink of the response, prefixed with "sia:"
UploadResponse(file, opts) == [skylink |-> <<"skylink", file, opts.customFilename>>]
uploadFile(file, opts) ==
  [prefix |-> uriSkynetPrefix, skylink |-> UploadResponse(file, opts).skylink]

\* the revision setFile gives the entry it builds (skydb.ts line 58)
NextRevision(existing) ==
  IF existing # None THEN PostIncrementValue(GetProp(existing, "Revision")) ELSE Num(0)

\* the registry value setFile builds
BuildValue(fileID, skylink, existing) ==
  [tweak |-> Tweak(fileID), data |-> skylink, revision |-> NextRevision(existing)]

\* a signature of the value's tweak and data with the revision of a first entry
SignValueOfFirstRevision(user, value) ==
  Sign(user, hashAll(<<value.tweak, value.data, toString(Num(0))>>))

\* the signature setFile makes of the value
SignValue(user, value) ==
  Sign(user, hashAll(<<value.tweak, value.data, toString(value.revision)>>))

(***************************************************************************)
(* The external registry: one entry per (user, tweak).                      *)
(***************************************************************************)
Keys == Users \X {Tweak(f) : f \in FileIDs}
Key(user, fileID) == <<user, Tweak(fileID)>>

\* whether the registry takes the update: the revision must be strictly
\* greater than the stored one (a NaN revision is greater than none)
RegistryAccepts(stored, entry) ==
  IF stored = None THEN ~entry.value.revision.isNaN
  ELSE /\ ~entry.value.revision.isNaN
       /\ entry.value.revision.n > stored.value.revision.n

\* how the end of updateRegistry ends setFile, which awaits it
SetFileOutcomeIgnoring(answer) == "resolved"
SetFileOutcome(answer) == IF answer = "Ok" THEN "resolved" ELSE answer

VARIABLES
  registry,     \* the registry's entry of each key, or None
  pc,           \* where each caller is in its call
  call,         \* the call each caller is making: op, user, fileID, file
  ncalls,       \* the number of calls started so far
  skylink,      \* setFile's local: the skylink uploadFile returned
  existing,     \* the local of getFile and setFile: what lookupRegistry returned
  submitted,    \* what setFile handed to updateRegistry, or None
  verdict,      \* the registry's answer to that update
  outcome,      \* how the call ended: pending, resolved or the error thrown
  downloads,    \* the skylinks getFile handed to downloadFile in this call
  lastUploaded, \* per key: the skylink uploaded by the last setFile that succeeded
  expected,     \* lastUploaded of the key when getFile's lookup was answered
  trace,        \* the external calls of the current call, in order
  input,        \* the arguments of a call of a string function, or None
  result        \* what that call returned or threw, or None before it

skydbVars == <<registry, pc, call, ncalls, skylink, existing, submitted, verdict,
               outcome, downloads, lastUploaded, expected, trace>>
vars == <<registry, pc, call, ncalls, skylink, existing, submitted, verdict,
          outcome, downloads, lastUploaded, expected, trace, input, result>>

NoCall == [op |-> "none"]

InitSkydb ==
  /\ registry = [k \in Keys |-> None]
  /\ pc = [p \in Procs |-> "idle"]
  /\ call = [p \in Procs |-> NoCall]
  /\ ncalls = 0
  /\ skylink = [p \in Procs |-> None]
  /\ existing = [p \in Procs |-> None]
  /\ submitted = [p \in Procs |-> None]
  /\ verdict = [p \in Procs |-> "none"]
  /\ outcome = [p \in Procs |-> "pending"]
  /\ downloads = [p \in Procs |-> <<>>]
  /\ lastUploaded = [k \in Keys |-> None]
  /\ expected = [p \in Procs |-> None]
  /\ trace = [p \in Procs |-> <<>>]

Init == InitSkydb /\ input = None /\ result = None

\* a caller starts a call: its locals are those of a fresh activation
StartCall(p, c) ==
  /\ pc[p] \in {"idle", "done"}
  /\ ncalls < MaxCalls
  /\ call' = [call EXCEPT ![p] = c]
  /\ ncalls' = ncalls + 1
  /\ skylink' = [skylink EXCEPT ![p] = None]
  /\ existing' = [existing EXCEPT ![p] = None]
  /\ submitted' = [submitted EXCEPT ![p] = None]
  /\ verdict' = [verdict EXCEPT ![p] = "none"]
  /\ outcome' = [outcome EXCEPT ![p] = "pending"]
  /\ downloads' = [downloads EXCEPT ![p] = <<>>]
  /\ expected' = [expected EXCEPT ![p] = None]

\* setFile is called: it calls uploadFile and awaits it
SetFileCall(p) ==
  \E u \in Users, f \in FileIDs, file \in Files :
    /\ StartCall(p, [op |-> "setFile", user |-> u, fileID |-> f, file |-> file])
    /\ pc' = [pc EXCEPT ![p] = "upload"]
    /\ trace' = [trace EXCEPT ![p] = <<"upload">>]
    /\ UNCHANGED <<input, result, registry, lastUploaded>>

\* the upload is answered: setFile calls lookupRegistry and awaits it
SetFileUploaded(p) ==
  /\ pc[p] = "upload"
  /\ skylink' = [skylink EXCEPT ![p] =
                   uploadFile(call[p].file, [customFilename |-> call[p].fileID.filename])]
  /\ pc' = [pc EXCEPT ![p] = "lookup"]
  /\ trace' = [trace EXCEPT ![p] = Append(@, "lookup")]
  /\ UNCHANGED <<input, result, registry, call, ncalls, existing, submitted, verdict, outcome,
                 downloads, lastUploaded, expected>>

\* a setFile that answers a failed upload by uploading again
SetFileUploadsAgain(p) ==
  /\ pc[p] = "upload"
  /\ Len(trace[p]) < 3
  /\ trace' = [trace EXCEPT ![p] = Append(@, "upload")]
  /\ UNCHANGED <<input, result, registry, pc, call, ncalls, skylink, existing, submitted, verdict,
                 outcome, downloads, lastUploaded, expected>>

\* the upload fails: the error ends setFile
SetFileUploadFails(p) ==
  /\ pc[p] = "upload"
  /\ pc' = [pc EXCEPT ![p] = "done"]
  /\ outcome' = [outcome EXCEPT ![p] = "TransportError"]
  /\ UNCHANGED <<input, result, registry, call, ncalls, skylink, existing, submitted, verdict,
                 downloads, lastUploaded, expected, trace>>

\* the lookup is answered with `found`: setFile builds the value, signs it and
\* calls updateRegistry, which it awaits
SetFileContinue(p, found) ==
  LET value == BuildValue(call[p].fileID, skylink[p], found)
      signature == SignValue(call[p].user, value)
  IN /\ existing' = [existing EXCEPT ![p] = found]
     /\ submitted' = [submitted EXCEPT ![p] = [value |-> value, signature |-> signature]]
     /\ pc' = [pc EXCEPT ![p] = "update"]
     /\ trace' = [trace EXCEPT ![p] = Append(@, "update")]
     /\ UNCHANGED <<input, result, registry, call, ncalls, skylink, verdict, outcome, downloads,
                    lastUploaded, expected>>

SetFileLookedUp(p) ==
  /\ pc[p] = "lookup"
  /\ SetFileContinue(p, registry[Key(call[p].user, call[p].fileID)])

\* the lookup fails: the error ends setFile
SetFileLookupFails(p) ==
  /\ pc[p] = "lookup"
  /\ pc' = [pc EXCEPT ![p] = "done"]
  /\ outcome' = [outcome EXCEPT ![p] = "TransportError"]
  /\ UNCHANGED <<input, result, registry, call, ncalls, skylink, existing, submitted, verdict,
                 downloads, lastUploaded, expected, trace>>

\* the registry decides the update and answers; setFile ends
SetFileUpdated(p) ==
  /\ pc[p] = "update"
  /\ LET k == Key(call[p].user, call[p].fileID)
         answer == IF RegistryAccepts(registry[k], submitted[p]) THEN "Ok" ELSE "Conflict"
     IN /\ verdict' = [verdict EXCEPT ![p] = answer]
        /\ registry' = IF answer = "Ok" THEN [registry EXCEPT ![k] = submitted[p]]
                       ELSE registry
        /\ lastUploaded' = IF answer = "Ok" THEN [lastUploaded EXCEPT ![k] = skylink[p]]
                           ELSE lastUploaded
        /\ outcome' = [outcome EXCEPT ![p] = SetFileOutcome(answer)]
  /\ pc' = [pc EXCEPT ![p] = "done"]
  /\ UNCHANGED <<input, result, call, ncalls, skylink, existing, submitted, downloads, expected, trace>>

\* the update is lost on the way: the error ends setFile
SetFileUpdateFails(p) ==
  /\ pc[p] = "update"
  /\ verdict' = [verdict EXCEPT ![p] = "TransportError"]
  /\ outcome' = [outcome EXCEPT ![p] = SetFileOutcome("TransportError")]
  /\ pc' = [pc EXCEPT ![p] = "done"]
  /\ UNCHANGED <<input, result, registry, call, ncalls, skylink, existing, submitted, downloads,
                 lastUploaded, expected, trace>>

\* getFile is called: it calls lookupRegistry and awaits it
GetFileCall(p) ==
  \E u \in Users, f \in FileIDs :
    /\ StartCall(p, [op |-> "getFile", user |-> u, fileID |-> f])
    /\ pc' = [pc EXCEPT ![p] = "glookup"]
    /\ trace' = [trace EXCEPT ![p] = <<"lookup">>]
    /\ UNCHANGED <<input, result, registry, lastUploaded>>

\* the entry's data with its "sia:" prefix cut off
GetFileSkylinkWithoutPrefix(found) ==
  [prefix |-> Empty, skylink |-> found.value.data.skylink]
\* the skylink getFile hands to downloadFile
GetFileSkylink(found) == found.value.data

\* whether getFile throws "not found" on what the lookup returned
GetFileThrowsNever(found) == FALSE
GetFileThrowsNotFound(found) == found = None

\* the lookup is answered with `found`: not found throws, otherwise the
\* download of the entry's data is started and getFile resolves
GetFileContinue(p, found) ==
  /\ existing' = [existing EXCEPT ![p] = found]
  /\ expected' = [expected EXCEPT ![p] = lastUploaded[Key(call[p].user, call[p].fileID)]]
  /\ IF GetFileThrowsNotFound(found)
     THEN /\ outcome' = [outcome EXCEPT ![p] = "NotFound"]
          /\ UNCHANGED <<input, result, downloads, trace>>
     ELSE /\ downloads' = [downloads EXCEPT ![p] =
                            IF found = None THEN Append(@, Undefined)
                            ELSE Append(@, GetFileSkylink(found))]
          /\ trace' = [trace EXCEPT ![p] = Append(@, "download")]
          /\ outcome' = [outcome EXCEPT ![p] = "resolved"]
  /\ pc' = [pc EXCEPT ![p] = "done"]
  /\ UNCHANGED <<input, result, registry, call, ncalls, skylink, submitted, verdict, lastUploaded>>

GetFileLookedUp(p) ==
  /\ pc[p] = "glookup"
  /\ GetFileContinue(p, registry[Key(call[p].user, call[p].fileID)])

\* the lookup fails: the error ends getFile
GetFileLookupFails(p) ==
  /\ pc[p] = "glookup"
  /\ pc' = [pc EXCEPT ![p] = "done"]
  /\ outcome' = [outcome EXCEPT ![p] = "TransportError"]
  /\ UNCHANGED <<input, result, registry, call, ncalls, skylink, existing, submitted, verdict,
                 downloads, lastUploaded, expected, trace>>

Next ==
  \/ \E p \in Procs : SetFileCall(p)
  \/ \E p \in Procs : SetFileUploaded(p)
  \/ \E p \in Procs : SetFileUploadFails(p)
  \/ \E p \in Procs : SetFileLookedUp(p)
  \/ \E p \in Procs : SetFileLookupFails(p)
  \/ \E p \in Procs : SetFileUpdated(p)
  \/ \E p \in Procs : SetFileUpdateFails(p)
  \/ \E p \in Procs : GetFileCall(p)
  \/ \E p \in Procs : GetFileLookedUp(p)
  \/ \E p \in Procs : GetFileLookupFails(p)

Spec == Init /\ [][Next]_vars

(***************************************************************************)
(* Calls of parseSkylink.  The inputs are the wrappings of an identifier    *)
(* (a prefix, the identifier, a trailing path, a query string, a fragment)  *)
(* and some strings that hold no identifier, under every option set.        *)
(***************************************************************************)
Reverse(s) == [i \in DOMAIN s |-> s[Len(s) + 1 - i]]
Identifiers == {testSkylink, Reverse(testSkylink)}

HttpsScheme == <<"h", "t", "t", "p", "s", ":", "/", "/">>
PortalHost == <<"s", "i", "a", "s", "k", "y", ".", "n", "e", "t">>
WrapPrefixes ==
  { Empty,
    uriSkynetPrefix,
    uriSkynetPrefix \o <<"/", "/">>,
    defaultSkynetPortalUrl \o Slash,
    HttpsScheme \o <<"f", "o", "o", ".">> \o PortalHost \o Slash,
    HttpsScheme \o testSkylinkBase32 \o <<".">> \o PortalHost \o Slash }
WrapPaths ==
  { Empty, <<"/">>, <<"/", "/">>, <<"/", "f", "o", "o">>, <<"/", "f", "o", "o", "/">>,
    <<"/", "f", "o", "o", "/", "b", "a", "r">>,
    <<"/", "f", "o", "o", "/", "b", "a", "r", "/">> }
WrapQueries ==
  { Empty, <<"?">>, <<"?", "f", "o", "o", "=", "b", "a", "r">>,
    <<"?", "f", "o", "o", "=", "b", "a", "r", "&", "b", "a", "r", "=", "b", "a", "z">> }
WrapHashes ==
  { Empty, <<"#">>, <<"#", "f", "o", "o">>, <<"#", "f", "o", "o", "?", "b", "a", "r">> }

Wrapping(prefix, id, path, query, hash) ==
  [kind |-> "wrapping", prefix |-> prefix, id |-> id, path |-> path, query |-> query,
   hash |-> hash, str |-> prefix \o id \o path \o query \o hash]
Wrappings ==
  { Wrapping(pre, id, path, q, h) :
      pre \in WrapPrefixes, id \in Identifiers, path \in WrapPaths,
      q \in WrapQueries, h \in WrapHashes }

\* strings that hold no identifier
OtherStrings ==
  { Empty, <<"f", "o", "o">>, defaultSkynetPortalUrl \o Slash,
    SubSeq(testSkylink, 1, SkylinkLength - 1),
    defaultSkynetPortalUrl \o <<"/", "f", "o", "o", "/">> \o testSkylink }
Others == { [kind |-> "other", str |-> str] : str \in OtherStrings }

ParseOptions == [includePath : BOOLEAN, onlyPath : BOOLEAN, fromSubdomain : BOOLEAN]

InitParse ==
  /\ InitSkydb
  /\ \E w \in Wrappings \cup Others, opts \in ParseOptions :
       input = [fn |-> "parseSkylink", arg |-> w, opts |-> opts]
  /\ result = None

ParseSkylink ==
  /\ input.fn = "parseSkylink"
  /\ result = None
  /\ result' = parseSkylink(input.arg.str, input.opts)
  /\ UNCHANGED <<input, skydbVars>>

NextParse == ParseSkylink

SpecParse == InitParse /\ [][NextParse]_vars

(***************************************************************************)
(* Calls of getSkylinkUrl, downloadFile and addUrlQuery on a client of the  *)
(* default portal.                                                          *)
(***************************************************************************)
Str_name == <<"n", "a", "m", "e">>
Str_test == <<"t", "e", "s", "t">>
Str_foo == <<"f", "o", "o">>
Str_bar == <<"b", "a", "r">>
Pair(key, str) == [k |-> key, v |-> StringValue(str)]

\* the query objects a caller passes
QueryObjects ==
  { <<>>,
    <<Pair(Str_name, Str_test)>>,
    <<Pair(Str_name, Str_test), Pair(Str_foo, <<"x">>)>>,
    <<Pair(Str_foo, <<"a", " ", "b", "&", "c", "=", "d">>)>>,
    <<Pair(AttachmentKey, <<"f", "a", "l", "s", "e">>), Pair(Str_name, Str_test)>> }

\* the path options a caller passes
PathOptions ==
  { <<"f", "o", "o", "/", "b", "a", "r">>,
    <<"f", "o", "o", "?", "b", "a", "r">>,
    <<"d", "i", "r", "/", "t", "e", "s", "t", "?", "e", "n", "c", "o", "d", "i", "n", "g">>,
    <<"a", " ", "b", "/", "c", "#", "d">>,
    <<"x", "&", "y", "=", "z", "/", "w">>,
    <<"a", "/", "/", "b">>,
    <<"/", "x">>,
    <<"x", "/">> }

\* URLs handed to addUrlQuery, with and without a query of their own
QueryUrls ==
  { defaultSkynetPortalUrl \o Slash \o testSkylink \o tail :
      tail \in { Empty,
                 <<"?", "f", "o", "o", "=", "b", "a", "r">>,
                 <<"?", "f", "o", "o", "=", "b", "a", "r", "&", "b", "a", "r", "=", "b", "a", "z",
                   "#", "h">>,
                 <<"?", "a", "t", "t", "a", "c", "h", "m", "e", "n", "t", "=", "n", "o", "&",
                   "f", "o", "o", "=", "b", "+", "r">> } }

BareSkylink == Wrapping(Empty, testSkylink, Empty, Empty, Empty)
UrlWrappings == {w \in Wrappings : w.id = testSkylink}

UrlInputs ==
  \* every wrapping, path-based and as a subdomain
  { [fn |-> "getSkylinkUrl", arg |-> w, opts |-> o] :
      w \in UrlWrappings, o \in {[subdomain |-> BooleanOption(b)] : b \in BOOLEAN} }
  \cup
  \* a query, with and without download
  { [fn |-> f, arg |-> w, opts |-> [query |-> q, download |-> BooleanOption(d)]] :
      f \in {"getSkylinkUrl", "downloadFile"},
      w \in {BareSkylink, Wrapping(defaultSkynetPortalUrl \o Slash, testSkylink,
                                   <<"/", "f", "o", "o">>,
                                   <<"?", "f", "o", "o", "=", "b", "a", "r">>, Empty)},
      q \in QueryObjects, d \in BOOLEAN }
  \cup
  \* a path, with and without download, path-based and as a subdomain
  { [fn |-> f, arg |-> BareSkylink,
     opts |-> [path |-> StringOption(path), subdomain |-> BooleanOption(sub)]] :
      f \in {"getSkylinkUrl", "downloadFile"}, path \in PathOptions, sub \in BOOLEAN }
  \cup
  { [fn |-> "addUrlQuery", arg |-> [kind |-> "url", str |-> url], opts |-> [query |-> q]] :
      url \in QueryUrls, q \in QueryObjects }

InitUrl ==
  /\ InitSkydb
  /\ input \in UrlInputs
  /\ result = None

GetSkylinkUrl ==
  /\ input.fn = "getSkylinkUrl"
  /\ result = None
  /\ result' = getSkylinkUrl(defaultSkynetPortalUrl, input.arg.str, input.opts)
  /\ UNCHANGED <<input, skydbVars>>

DownloadFile ==
  /\ input.fn = "downloadFile"
  /\ result = None
  /\ result' = downloadFile(defaultSkynetPortalUrl, input.arg.str, input.opts)
  /\ UNCHANGED <<input, skydbVars>>

AddUrlQuery ==
  /\ input.fn = "addUrlQuery"
  /\ result = None
  /\ result' = Return(addUrlQuery(input.arg.str, input.opts.query))
  /\ UNCHANGED <<input, skydbVars>>

NextUrl == GetSkylinkUrl \/ DownloadFile \/ AddUrlQuery

SpecUrl == InitUrl /\ [][NextUrl]_vars

(***************************************************************************)
(* Calls of getSkylinkUrl and downloadFile with arguments that are not      *)
(* valid: a string that holds no identifier, a path option that is no       *)
(* string.                                                                  *)
(***************************************************************************)
\* the values a caller passes as the path option: strings, numbers, booleans
PathValues ==
  { StringOption(<<"f", "o", "o">>), StringOption(Empty),
    NumberOption(0), NumberOption(5), BooleanOption(TRUE), BooleanOption(FALSE) }

InvalidInputs ==
  { [fn |-> f, arg |-> w, opts |-> [subdomain |-> BooleanOption(sub)]] :
      f \in {"getSkylinkUrl", "downloadFile"}, w \in Others, sub \in BOOLEAN }
  \cup
  { [fn |-> f, arg |-> w, opts |-> [subdomain |-> BooleanOption(sub), path |-> path]] :
      f \in {"getSkylinkUrl", "downloadFile"}, w \in Others \cup {BareSkylink},
      sub \in BOOLEAN, path \in PathValues }

InitInvalid ==
  /\ InitSkydb
  /\ input \in InvalidInputs
  /\ result = None

NextInvalid == GetSkylinkUrl \/ DownloadFile

SpecInvalid == InitInvalid /\ [][NextInvalid]_vars

(***************************************************************************)
(* Calls of convertSkylinkToBase32 on identifiers: the tests' skylink with  *)
(* every character of the alphabet in its last place, and two characters in *)
(* its first place.                                                         *)
(***************************************************************************)
\* str with the character c at index i (from 1)
WithCharAt(str, i, c) == [str EXCEPT ![i] = c]

Base32Inputs ==
  { WithCharAt(WithCharAt(testSkylink, 1, first), SkylinkLength, last) :
      first \in {"X", "_"}, last \in SkylinkChars }

InitBase32 ==
  /\ InitSkydb
  /\ \E id \in Base32Inputs :
       input = [fn |-> "convertSkylinkToBase32", arg |-> [kind |-> "identifier", str |-> id]]
  /\ result = None

ConvertSkylinkToBase32 ==
  /\ input.fn = "convertSkylinkToBase32"
  /\ result = None
  /\ result' = Return(convertSkylinkToBase32(input.arg.str))
  /\ UNCHANGED <<input, skydbVars>>

NextBase32 == ConvertSkylinkToBase32

SpecBase32 == InitBase32 /\ [][NextBase32]_vars

(***************************************************************************)
(* A sequence of calls on one client.  The caller keeps one query object    *)
(* and passes it, or none, to each call; the client's customOptions carry a *)
(* query object of their own, or none.  Spreading options copies the        *)
(* reference to a query object, not the object: opts.query is the caller's  *)
(* object, else the client's, else a new one, and  query.attachment = true  *)
(* is an assignment to that object.                                         *)
(***************************************************************************)
NoOptions == [k \in {} |-> None]
HnsDomain == uriHandshakePrefix \o <<"d", "o", "e", "s", "n">>
\* the client's customOptions.query: the object, if there is one
NoQuery == [has |-> FALSE, obj |-> <<>>]
ClientQueries ==
  {NoQuery, [has |-> TRUE, obj |-> <<>>], [has |-> TRUE, obj |-> <<Pair(Str_foo, Str_bar)>>]}

InitShared ==
  /\ InitSkydb
  /\ \E q \in QueryObjects, c \in ClientQueries :
       input = [fn |-> "client", given |-> q, callerQuery |-> q,
                clientGiven |-> c, clientQuery |-> c, last |-> None]
  /\ result = None

\* this.customOptions
ClientOptions ==
  IF input.clientQuery.has THEN [query |-> input.clientQuery.obj] ELSE NoOptions

\* the customOptions of a call: the caller's query object or none, download or not
CallerOptions(pass, download) ==
  MergeOptions(IF pass THEN [query |-> input.callerQuery] ELSE NoOptions,
               IF download THEN [download |-> BooleanOption(TRUE)] ELSE NoOptions)

\* the object opts.query refers to after the spreads
QueryObjectOf(pass) ==
  IF pass THEN "caller" ELSE IF input.clientQuery.has THEN "client" ELSE "new"

\* a call of fn on the client: the URL it returns and what it leaves in the
\* query objects
Compose(fn, pass, download) ==
  /\ input.fn = "client"
  /\ LET customOptions == MergeOptions(ClientOptions, CallerOptions(pass, download))
         assigns == download \/ fn = "downloadFile"
         object == QueryObjectOf(pass)
     IN /\ result' =
             (CASE fn = "downloadFile" ->
                     downloadFile(defaultSkynetPortalUrl, testSkylink, customOptions)
                [] fn = "getSkylinkUrl" ->
                     getSkylinkUrl(defaultSkynetPortalUrl, testSkylink, customOptions)
                [] fn = "openFile" ->
                     openFile(defaultSkynetPortalUrl, testSkylink, customOptions)
                [] fn = "getHnsUrl" ->
                     getHnsUrl(defaultSkynetPortalUrl, HnsDomain, customOptions))
        /\ input' = [input EXCEPT
                       !.callerQuery = IF assigns /\ object = "caller"
                                       THEN SetKey(@, AttachmentKey, TrueValue) ELSE @,
                       !.clientQuery.obj = IF assigns /\ object = "client"
                                           THEN SetKey(@, AttachmentKey, TrueValue) ELSE @,
                       !.last = [fn |-> fn, pass |-> pass, download |-> assigns]]
  /\ UNCHANGED skydbVars

DownloadFileOnClient == \E pass \in BOOLEAN : Compose("downloadFile", pass, TRUE)
GetSkylinkUrlOnClient == \E pass \in BOOLEAN, d \in BOOLEAN : Compose("getSkylinkUrl", pass, d)
OpenFileOnClient == \E pass \in BOOLEAN, d \in BOOLEAN : Compose("openFile", pass, d)
GetHnsUrlOnClient == \E pass \in BOOLEAN, d \in BOOLEAN : Compose("getHnsUrl", pass, d)

NextShared ==
  DownloadFileOnClient \/ GetSkylinkUrlOnClient \/ OpenFileOnClient \/ GetHnsUrlOnClient

SpecShared == InitShared /\ [][NextShared]_vars

(***************************************************************************)
(* A caller that calls setFile again whenever the registry answered         *)
(* Conflict, beside other writers to the same (user, fileID) who stop after *)
(* MaxCalls calls.  No external call fails; every call that is awaited is   *)
(* answered, and the caller does call again.                                *)
(***************************************************************************)
Retrier == 1
RetryUser == "alice"
RetryFileID == NewFileID("app", FileTypePublicUnencrypted, "f.txt")

\* the caller's first call of setFile, and each call after a Conflict
RetrierSetFile ==
  /\ pc[Retrier] = "idle" \/ (pc[Retrier] = "done" /\ outcome[Retrier] = "Conflict")
  /\ call' = [call EXCEPT ![Retrier] =
                [op |-> "setFile", user |-> RetryUser, fileID |-> RetryFileID, file |-> "content1"]]
  /\ skylink' = [skylink EXCEPT ![Retrier] = None]
  /\ existing' = [existing EXCEPT ![Retrier] = None]
  /\ submitted' = [submitted EXCEPT ![Retrier] = None]
  /\ verdict' = [verdict EXCEPT ![Retrier] = "none"]
  /\ outcome' = [outcome EXCEPT ![Retrier] = "pending"]
  /\ pc' = [pc EXCEPT ![Retrier] = "upload"]
  /\ trace' = [trace EXCEPT ![Retrier] = <<"upload">>]
  /\ UNCHANGED <<input, result, registry, ncalls, downloads, lastUploaded, expected>>

\* another writer calls setFile for the same user and fileID
OtherSetFile(p) ==
  /\ p # Retrier
  /\ \E file \in Files :
       StartCall(p, [op |-> "setFile", user |-> RetryUser, fileID |-> RetryFileID, file |-> file])
  /\ pc' = [pc EXCEPT ![p] = "upload"]
  /\ trace' = [trace EXCEPT ![p] = <<"upload">>]
  /\ UNCHANGED <<input, result, registry, lastUploaded>>

NextRetry ==
  \/ RetrierSetFile
  \/ \E p \in Procs : OtherSetFile(p)
  \/ \E p \in Procs : SetFileUploaded(p)
  \/ \E p \in Procs : SetFileLookedUp(p)
  \/ \E p \in Procs : SetFileUpdated(p)

FairRetry ==
  /\ WF_vars(RetrierSetFile)
  /\ \A p \in Procs : WF_vars(SetFileUploaded(p))
  /\ \A p \in Procs : WF_vars(SetFileLookedUp(p))
  /\ \A p \in Procs : WF_vars(SetFileUpdated(p))

SpecRetry == Init /\ [][NextRetry]_vars /\ FairRetry

(***************************************************************************)
(* A registry whose answers cannot be trusted: a lookup may be answered     *)
(* with an entry that the user never signed.                                *)
(***************************************************************************)
ForgedSkylink == [prefix |-> uriSkynetPrefix, skylink |-> <<"skylink", "forged", "f.txt">>]
ForgedEntries ==
  { [value |-> [tweak |-> Tweak(f), data |-> ForgedSkylink, revision |-> Num(0)],
     signature |-> Sign("mallory", hashAll(<<Tweak(f), ForgedSkylink, toString(Num(0))>>))]
    : f \in FileIDs }

SetFileLookedUpForged(p) ==
  /\ pc[p] = "lookup"
  /\ \E e \in ForgedEntries :
       e.value.tweak = Tweak(call[p].fileID) /\ SetFileContinue(p, e)

GetFileLookedUpForged(p) ==
  /\ pc[p] = "glookup"
  /\ \E e \in ForgedEntries :
       e.value.tweak = Tweak(call[p].fileID) /\ GetFileContinue(p, e)

NextForged ==
  \/ Next
  \/ \E p \in Procs : SetFileLookedUpForged(p)
  \/ \E p \in Procs : GetFileLookedUpForged(p)

SpecForged == Init /\ [][NextForged]_vars

(***************************************************************************)
(* Claims about getFile and setFile.                                        *)
(***************************************************************************)
\* the revision the claim expects of the entry built after the lookup
RevisionAfter(found) == IF found = None THEN Num(0) ELSE Num(found.value.revision.n + 1)

\* C1: the revision of the entry setFile submits is 0 when the lookup found no
\* entry, and the looked-up entry's revision + 1 when it found one.
C1_SubmittedRevisionIsNext ==
  \A p \in Procs :
    submitted[p] # None => submitted[p].value.revision = RevisionAfter(existing[p])

\* C2: a setFile whose update the registry rejects as stale ends with that
\* rejection as the error at its caller, and never reports success.
C2_RejectionReachesCaller ==
  \A p \in Procs :
    verdict[p] = "Conflict" => pc[p] = "done" /\ outcome[p] = "Conflict"

\* two writers of one key both found no entry; one update was taken, the
\* other rejected, and the rejected call has ended
C2_Witness ==
  \E p \in Procs, q \in Procs :
    /\ p # q
    /\ call[p].op = "setFile" /\ call[q].op = "setFile"
    /\ Key(call[p].user, call[p].fileID) = Key(call[q].user, call[q].fileID)
    /\ submitted[p] # None /\ submitted[q] # None
    /\ existing[p] = None /\ existing[q] = None
    /\ verdict[p] = "Ok" /\ verdict[q] = "Conflict"
    /\ pc[q] = "done"

\* C3: after a setFile that succeeded, and with no other write of the key
\* since, a getFile whose lookup is answered resolves and asks for the
\* download of exactly the skylink that setFile's upload returned.
C3_RoundTrip ==
  \A p \in Procs :
    (call[p].op = "getFile" /\ pc[p] = "done" /\ outcome[p] # "TransportError"
       /\ expected[p] # None)
    => outcome[p] = "resolved" /\ downloads[p] = <<expected[p]>>

C3_Witness ==
  \E p \in Procs :
    /\ call[p].op = "getFile" /\ pc[p] = "done"
    /\ expected[p] = uploadFile("content2", [customFilename |-> call[p].fileID.filename])
    /\ downloads[p] = <<expected[p]>>

\* C4: getFile throws not-found and starts no download when the lookup returns
\* no entry; it starts exactly one download, of the entry's data, when the
\* lookup returns an entry.
C4_GetFile ==
  \A p \in Procs :
    (call[p].op = "getFile" /\ pc[p] = "done" /\ outcome[p] # "TransportError")
    => IF existing[p] = None
       THEN outcome[p] = "NotFound" /\ downloads[p] = <<>>
       ELSE outcome[p] = "resolved" /\ downloads[p] = <<existing[p].value.data>>

C4_Witness ==
  \E p \in Procs, q \in Procs :
    /\ call[p].op = "getFile" /\ pc[p] = "done" /\ outcome[p] = "NotFound"
    /\ call[q].op = "getFile" /\ pc[q] = "done" /\ Len(downloads[q]) = 1

\* C5: an entry whose signature does not verify against the user's key is
\* never used: getFile hands none of its data to the download, setFile builds
\* no entry from it, and the call ends in a verification failure.
C5_UnverifiedEntryNeverUsed ==
  \A p \in Procs :
    (existing[p] # None /\ ~Verifies(call[p].user, existing[p]))
    => /\ downloads[p] = <<>>
       /\ submitted[p] = None
       /\ outcome[p] = "VerificationFailed"

(***************************************************************************)
(* Claims about parseSkylink.                                               *)
(***************************************************************************)
\* a trailing path without its trailing slashes
WithoutTrailingSlashes(path) ==
  LET keep == {i \in DOMAIN path : path[i] # "/"}
  IN IF keep = {} THEN Empty
     ELSE SubSeq(path, 1, CHOOSE i \in keep : \A j \in keep : j <= i)

\* C6: for every wrapping of an identifier, parseSkylink returns the
\* identifier in default mode, and with includePath the identifier joined
\* with the trailing path, without query, fragment or trailing slash.
C6_ParseWrappings ==
  (result # None /\ input.fn = "parseSkylink" /\ input.arg.kind = "wrapping")
  => /\ input.opts = NoOpts => result = Return(input.arg.id)
     /\ input.opts = [NoOpts EXCEPT !.includePath = TRUE]
          => result = Return(input.arg.id \o WithoutTrailingSlashes(input.arg.path))

C6_Witness ==
  /\ result # None /\ input.fn = "parseSkylink" /\ input.arg.kind = "wrapping"
  /\ input.opts = [NoOpts EXCEPT !.includePath = TRUE]
  /\ input.arg.prefix = uriSkynetPrefix \o <<"/", "/">>
  /\ input.arg.path = <<"/", "f", "o", "o", "/", "b", "a", "r", "/">>
  /\ input.arg.query # Empty /\ input.arg.hash # Empty
  /\ result = Return(input.arg.id \o <<"/", "f", "o", "o", "/", "b", "a", "r">>)

ModesSet(opts) ==
  Cardinality({m \in {"includePath", "onlyPath", "fromSubdomain"} : opts[m]})

\* C8 as stated: parseSkylink throws whenever more than one of includePath,
\* onlyPath and fromSubdomain is set.
C8_AnyTwoModesThrow ==
  (result # None /\ input.fn = "parseSkylink" /\ ModesSet(input.opts) > 1)
  => result.throws

\* C8, amended: parseSkylink throws exactly when includePath is set together
\* with onlyPath or with fromSubdomain; onlyPath with fromSubdomain alone does
\* not throw, it returns the path of the URL or null.
C8_IncludePathExcludesOthers ==
  (result # None /\ input.fn = "parseSkylink")
  => /\ result.throws <=>
          (input.opts.includePath /\ (input.opts.onlyPath \/ input.opts.fromSubdomain))
     /\ (input.opts.onlyPath /\ input.opts.fromSubdomain /\ ~input.opts.includePath)
          => result.value \in {Null, UrlParse(input.arg.str).pathname}

C8_Witness ==
  /\ result # None /\ input.fn = "parseSkylink"
  /\ input.opts.includePath /\ input.opts.fromSubdomain /\ ~input.opts.onlyPath
  /\ result.throws

(***************************************************************************)
(* Claims about getSkylinkUrl, downloadFile and addUrlQuery.                *)
(***************************************************************************)
\* the URL of the base32 form of the tests' skylink as a subdomain of the portal
SubdomainUrl == HttpsScheme \o testSkylinkBase32 \o <<".">> \o PortalHost

\* C7: for every wrapping of the identifier, getSkylinkUrl returns the portal
\* URL, "/", the identifier and the embedded path, and with subdomain: true
\* the portal URL with the base32 form of the identifier as its leftmost host
\* label, followed by the embedded path; the wrapping itself (prefix, query
\* string, fragment, trailing slashes) plays no part.
C7_UrlOfIdentifierAndPath ==
  (/\ result # None /\ input.fn = "getSkylinkUrl"
   /\ input.arg.kind = "wrapping" /\ DOMAIN input.opts = {"subdomain"})
  => result = Return(IF input.opts.subdomain.b
                     THEN SubdomainUrl \o WithoutTrailingSlashes(input.arg.path)
                     ELSE defaultSkynetPortalUrl \o Slash \o input.arg.id
                          \o WithoutTrailingSlashes(input.arg.path))

\* the bare identifier as a subdomain of https://siasky.net: no trailing slash
C7_Witness ==
  /\ result # None /\ input.fn = "getSkylinkUrl"
  /\ input.arg = BareSkylink
  /\ input.opts = [subdomain |-> BooleanOption(TRUE)]
  /\ result = Return(SubdomainUrl)
  /\ Len(result.value) = Len(HttpsScheme) + SkylinkSubdomainLength + 1 + Len(PortalHost)

\* the query of the call at hand: the parameters of the URL handed in, the
\* caller's query option, whether the download is asked for, and the query
\* read back from the URL returned
QueryCall ==
  /\ result # None
  /\ input.fn \in {"getSkylinkUrl", "downloadFile", "addUrlQuery"}
  /\ "query" \in DOMAIN input.opts
UrlParameters ==
  IF input.fn = "addUrlQuery" THEN QueryParse(UrlParse(input.arg.str).query) ELSE <<>>
Download == input.fn = "downloadFile" \/ Truthy(input.opts, "download")
ResultParameters == QueryParse(UrlParse(result.value).query)
KeysOf(obj) == {obj[i].k : i \in DOMAIN obj}
PositionOf(obj, key) == CHOOSE i \in DOMAIN obj : obj[i].k = key

\* the merge: the keys of the result are those of the URL, of the caller and
\* attachment when downloading, each once; the caller's value wins, every
\* other parameter of the URL keeps its value; attachment is true when
\* downloading
QueryIsMerged ==
  LET got == ResultParameters
      own == input.opts.query
      old == UrlParameters
      injected == IF Download THEN {AttachmentKey} ELSE {}
  IN /\ ~result.throws
     /\ KeysOf(got) = KeysOf(old) \cup KeysOf(own) \cup injected
     /\ Len(got) = Cardinality(KeysOf(got))
     /\ \A i \in DOMAIN own :
          own[i].k \notin injected
          => ValueOf(got, own[i].k) = StringValue(ValueToString(own[i].v))
     /\ \A i \in DOMAIN old :
          old[i].k \notin KeysOf(own) \cup injected => ValueOf(got, old[i].k) = old[i].v
     /\ Download => ValueOf(got, AttachmentKey) = StringValue(ValueToString(TrueValue))

\* C9 as stated: the query of the composed URL is the merge of the URL's
\* parameters with the query option, and when download is set
\* attachment=true comes after all of the caller's own parameters.
C9_AttachmentAfterCallersParameters ==
  QueryCall
  => /\ QueryIsMerged
     /\ Download => \A i \in DOMAIN input.opts.query :
                      input.opts.query[i].k # AttachmentKey
                      => PositionOf(ResultParameters, input.opts.query[i].k)
                         < PositionOf(ResultParameters, AttachmentKey)

\* C9, amended: the query of the composed URL is the merge of the URL's
\* parameters with the query option (the option winning, the other parameters
\* preserved), the caller's parameters keeping their order; when download is
\* set the result has attachment=true, as its last parameter unless the
\* caller's query has an attachment key of its own, whose value is then
\* replaced by true in the place where the caller put it.
C9_AttachmentLastUnlessCallersKey ==
  QueryCall
  => /\ QueryIsMerged
     /\ \A i \in DOMAIN input.opts.query, j \in DOMAIN input.opts.query :
          (i < j /\ {input.opts.query[i].k, input.opts.query[j].k} \cap KeysOf(UrlParameters) = {})
          => PositionOf(ResultParameters, input.opts.query[i].k)
             < PositionOf(ResultParameters, input.opts.query[j].k)
     /\ (Download /\ AttachmentKey \notin KeysOf(input.opts.query) \cup KeysOf(UrlParameters))
          => PositionOf(ResultParameters, AttachmentKey) = Len(ResultParameters)

\* a download whose caller passed a query with an attachment key of its own:
\* attachment=true stands where the caller put the key, before name=test
C9_Witness ==
  /\ result # None /\ input.fn = "downloadFile"
  /\ input.arg = BareSkylink
  /\ "query" \in DOMAIN input.opts
  /\ input.opts.query
       = <<Pair(AttachmentKey, <<"f", "a", "l", "s", "e">>), Pair(Str_name, Str_test)>>
  /\ result = Return(defaultSkynetPortalUrl \o Slash \o testSkylink
                     \o <<"?">> \o AttachmentKey \o <<"=", "t", "r", "u", "e", "&">>
                     \o Str_name \o <<"=">> \o Str_test)

\* the number of "/" in a string
Separators(str) == Cardinality({i \in DOMAIN str : str[i] = "/"})
\* a path as url-join leaves it: no leading "/", one "/" for those at its end
AsJoined(path) ==
  LET t == trimPrefix(path, Slash)
  IN IF endsWith(t, Slash) THEN trimSuffix(t, Slash) \o Slash ELSE t

\* C10: the path option is encoded element by element: the URL returned is the
\* URL of the skylink, "/", and a string of unreserved characters, escapes and
\* as many "/" as the path has, which decodes to the path; no character of the
\* path starts a query or a fragment ("foo?bar" gives /foo%3Fbar,
\* "dir/test?encoding" gives /dir/test%3Fencoding).
C10_PathEncodedBySegment ==
  (/\ result # None /\ input.fn \in {"getSkylinkUrl", "downloadFile"}
   /\ "path" \in DOMAIN input.opts)
  => LET parsed == UrlParse(result.value)
         prefix == IF input.opts.subdomain.b THEN Slash ELSE Slash \o testSkylink \o Slash
         encoded == slice(parsed.pathname, Len(prefix))
         path == input.opts.path.str
     IN /\ ~result.throws
        /\ parsed.hash = Empty
        /\ parsed.query = (IF input.fn = "downloadFile"
                           THEN <<"?">> \o AttachmentKey \o <<"=", "t", "r", "u", "e">>
                           ELSE Empty)
        /\ parsed.host = (IF input.opts.subdomain.b
                          THEN testSkylinkBase32 \o <<".">> \o PortalHost ELSE PortalHost)
        /\ startsWith(parsed.pathname, prefix)
        /\ Range(encoded) \subseteq UnreservedChars \cup {"%", "/"}
        /\ Separators(encoded) = Separators(AsJoined(path))
        /\ decodeURIComponent(encoded) = AsJoined(path)
        /\ path = <<"f", "o", "o", "?", "b", "a", "r">>
             => encoded = <<"f", "o", "o", "%", "3", "F", "b", "a", "r">>
        /\ path = <<"d", "i", "r", "/", "t", "e", "s", "t", "?", "e", "n", "c", "o", "d", "i", "n", "g">>
             => encoded = <<"d", "i", "r", "/", "t", "e", "s", "t", "%", "3", "F",
                            "e", "n", "c", "o", "d", "i", "n", "g">>

C10_Witness ==
  /\ result # None /\ input.fn = "getSkylinkUrl"
  /\ "path" \in DOMAIN input.opts
  /\ input.opts.path.str
       = <<"d", "i", "r", "/", "t", "e", "s", "t", "?", "e", "n", "c", "o", "d", "i", "n", "g">>
  /\ ~input.opts.subdomain.b
  /\ result = Return(defaultSkynetPortalUrl \o Slash \o testSkylink
                     \o <<"/", "d", "i", "r", "/", "t", "e", "s", "t", "%", "3", "F",
                          "e", "n", "c", "o", "d", "i", "n", "g">>)

\* the path option of the call at hand is given and is no string
PathIsNoString == "path" \in DOMAIN input.opts /\ input.opts.path.type # "string"

\* C11: getSkylinkUrl throws, and returns no URL, whenever its input holds no
\* identifier (path-based and as a subdomain) and whenever the path option is
\* given with a value that is not a string.
C11_InvalidArgumentsThrow ==
  (result # None /\ input.fn \in {"getSkylinkUrl", "downloadFile"})
  => ((input.arg.kind = "other" \/ PathIsNoString) => result.throws)

\* the part of C11 the code keeps: an input without identifier throws, and so
\* does a path option that is no string and that JavaScript takes for true
C11_NoIdentifierOrTruthyPathThrows ==
  (result # None /\ input.fn \in {"getSkylinkUrl", "downloadFile"})
  => ((input.arg.kind = "other" \/ (PathIsNoString /\ Truthy(input.opts, "path")))
      <=> result.throws)

(***************************************************************************)
(* Claims about convertSkylinkToBase32.  The source has no conversion from  *)
(* base32 back to base64; that the conversion loses nothing is stated as:   *)
(* the base32 form of an identifier is the base32 form of no other one.     *)
(***************************************************************************)
\* identifiers that differ from str in one character: the last one, the one
\* before it, or the first one
Neighbours(str) ==
  ({ WithCharAt(str, SkylinkLength, c) : c \in SkylinkChars }
   \cup { WithCharAt(str, SkylinkLength - 1, c) : c \in {"A", "B", "g", "_"} }
   \cup { WithCharAt(str, 1, c) : c \in {"A", "B", "g", "_"} })
  \ {str}

\* 55 characters, digits and lower-case letters, no padding
IsBase32Label(str) ==
  /\ Len(str) = SkylinkSubdomainLength
  /\ Range(str) \subseteq Digits \cup Range(LowerLetters)

\* the two identifiers are equal but for the four low bits of their last
\* characters, which the 34 decoded bytes do not hold
SameDecodedBytes(x, y) ==
  /\ SubSeq(x, 1, SkylinkLength - 1) = SubSeq(y, 1, SkylinkLength - 1)
  /\ Base64Value(x[SkylinkLength]) \div 16 = Base64Value(y[SkylinkLength]) \div 16

\* C12 as stated: the base32 form of every 46-character base64url identifier
\* is a 55-character lower-case unpadded string from which the identifier can
\* be got back: no other identifier has the same base32 form; the tests'
\* skylink has the base32 form of the tests.
C12_Base32Lossless ==
  (result # None /\ input.fn = "convertSkylinkToBase32")
  => /\ IsBase32Label(result.value)
     /\ input.arg.str = testSkylink => result.value = testSkylinkBase32
     /\ \A y \in Neighbours(input.arg.str) : convertSkylinkToBase32(y) # result.value

\* C12, amended: the base32 form is a 55-character lower-case unpadded string
\* that holds exactly the 34 bytes the identifier decodes to: two identifiers
\* have the same base32 form exactly when they differ only in the four low
\* bits of the last character, so the identifier can be got back from it when
\* those bits are zero (the last character is A, Q, g or w), as in the tests'
\* skylink.
C12_Base32HoldsDecodedBytes ==
  (result # None /\ input.fn = "convertSkylinkToBase32")
  => /\ IsBase32Label(result.value)
     /\ input.arg.str = testSkylink => result.value = testSkylinkBase32
     /\ \A y \in Neighbours(input.arg.str) :
          convertSkylinkToBase32(y) = result.value <=> SameDecodedBytes(input.arg.str, y)
     /\ Base64Value(input.arg.str[SkylinkLength]) % 16 = 0
          <=> input.arg.str[SkylinkLength] \in {"A", "Q", "g", "w"}

\* the tests' skylink converted, its base32 form shared with the identifier
\* that ends in h instead of g
C12_Witness ==
  /\ result # None /\ input.fn = "convertSkylinkToBase32"
  /\ input.arg.str = testSkylink
  /\ result = Return(testSkylinkBase32)
  /\ convertSkylinkToBase32(WithCharAt(testSkylink, SkylinkLength, "h")) = testSkylinkBase32

(***************************************************************************)
(* Claims about what setFile submits                                        *)
(***************************************************************************)
\* C13: in every reachable state no entry has been submitted by setFile, and
\* none is stored in the registry, for a FileID whose fileType is Invalid (0).
C13_InvalidFileTypeNeverSubmitted ==
  /\ \A p \in Procs :
       (call[p].op = "setFile" /\ submitted[p] # None)
       => call[p].fileID.fileType # FileTypeInvalid
  /\ \A u \in Users, f \in FileIDs :
       registry[Key(u, f)] # None => f.fileType # FileTypeInvalid

\* C14: every {entry, signature} setFile submits is consistent with the call:
\* the tweak is the hash of the fileID's version, applicationID, fileType and
\* filename in this order, the same for every call with an equal fileID; the
\* data is the skylink this call's upload returned; the signature is the
\* calling user's, over the hash of the submitted tweak, data and revision.
C14_SubmittedEntryIsConsistent ==
  \A p \in Procs :
    (call[p].op = "setFile" /\ submitted[p] # None)
    => LET entry == submitted[p].value
           fileID == call[p].fileID
       IN /\ entry.tweak = hashAll(<<toString(fileID.version), toString(fileID.applicationID),
                                      toString(fileID.fileType), toString(fileID.filename)>>)
          /\ \A q \in Procs :
               (call[q].op = "setFile" /\ submitted[q] # None /\ call[q].fileID = fileID)
               => submitted[q].value.tweak = entry.tweak
          /\ skylink[p] = uploadFile(call[p].file, [customFilename |-> fileID.filename])
          /\ entry.data = skylink[p]
          /\ submitted[p].signature.signer = call[p].user
          /\ submitted[p].signature.message =
               hashAll(<<entry.tweak, entry.data, toString(entry.revision)>>)

\* two callers have submitted entries for equal fileIDs, with different
\* content, one on an empty registry and one on an entry found
C14_Witness ==
  \E p \in Procs, q \in Procs :
    /\ call[p].op = "setFile" /\ submitted[p] # None
    /\ call[q].op = "setFile" /\ submitted[q] # None
    /\ call[p].fileID = call[q].fileID
    /\ call[p].file # call[q].file
    /\ existing[p] = None
    /\ existing[q] # None

(***************************************************************************)
(* Claims about the course of setFile calls                                 *)
(***************************************************************************)
\* C15: a caller that calls setFile again after every Conflict eventually has
\* its write accepted by the registry, when the other writers to the same
\* (user, fileID) stop and no external call fails, also when an entry exists
\* for the pair before the caller's first attempt.
C15_RetryIsEventuallyAccepted ==
  <>(pc[Retrier] = "done" /\ verdict[Retrier] = "Ok" /\ outcome[Retrier] = "resolved")

\* what the code gives instead: a call whose lookup found an entry is never
\* accepted, so the caller is accepted only on a registry without an entry
C15_AcceptedOnlyWithoutEntry ==
  \A p \in Procs :
    (call[p].op = "setFile" /\ verdict[p] = "Ok") => existing[p] = None

\* the external calls of a setFile that runs to its end
SetFileCalls == <<"upload", "lookup", "update">>

IsPrefix(s, t) == Len(s) <= Len(t) /\ s = SubSeq(t, 1, Len(s))

\* C16: the external calls a setFile call has made are, at every step, a
\* beginning of upload, lookup, update (this order, each at most once and
\* nothing between them); a step in which the upload or the lookup fails ends
\* the call with the error, without an update made or an entry submitted, and
\* leaves the registry as it was.
C16_SetFileCallsInOrder ==
  [][\A p \in Procs :
       call'[p].op = "setFile"
       => /\ IsPrefix(trace'[p], SetFileCalls)
          /\ (pc[p] \in {"upload", "lookup"} /\ pc'[p] = "done")
             => /\ trace'[p] = trace[p]
                /\ "update" \notin Range(trace'[p])
                /\ submitted'[p] = None
                /\ registry' = registry
                /\ outcome'[p] = "TransportError"]_vars

\* one setFile has ended in the error of its lookup with nothing submitted,
\* one in the error of its upload, beside an entry stored by a third call
C16_Witness ==
  \E p \in Procs, q \in Procs :
    /\ call[p].op = "setFile" /\ pc[p] = "done" /\ outcome[p] = "TransportError"
    /\ trace[p] = <<"upload", "lookup">> /\ submitted[p] = None
    /\ call[q].op = "setFile" /\ pc[q] = "done" /\ outcome[q] = "TransportError"
    /\ trace[q] = <<"upload">> /\ submitted[q] = None
    /\ registry[Key(call[p].user, call[p].fileID)] # None

(***************************************************************************)
(* Claims about sequences of calls on one client                            *)
(***************************************************************************)
\* the query the last call was given, as the caller and the client made it
GivenQuery ==
  IF input.last.pass THEN input.given
  ELSE input.clientGiven.obj
\* the same object as it was when the last call read it
QueryAtCall ==
  IF input.last.pass THEN input.callerQuery
  ELSE input.clientQuery.obj

\* C17: whatever calls of downloadFile, getSkylinkUrl, openFile and getHnsUrl
\* went before on the client, the caller's query object is as the caller made
\* it, and a call without download whose query was made without an attachment
\* key returns a URL without an attachment parameter.
C17_CompositionLeavesNoTrace ==
  (input.fn = "client" /\ result # None)
  => /\ input.callerQuery = input.given
     /\ (~input.last.download /\ ~HasKey(GivenQuery, AttachmentKey))
        => ~HasKey(ResultParameters, AttachmentKey)

\* what the code gives instead: the URL has an attachment parameter exactly
\* when the call downloads or the query object holds the key when the call
\* reads it, and a query object differs from what it was made as only by an
\* attachment key set to true
C17_AttachmentFromQueryObject ==
  (input.fn = "client" /\ result # None)
  => /\ ~result.throws
     /\ HasKey(ResultParameters, AttachmentKey)
        <=> (input.last.download \/ HasKey(QueryAtCall, AttachmentKey))
     /\ input.callerQuery \in {input.given, SetKey(input.given, AttachmentKey, TrueValue)}
     /\ input.clientQuery.has = input.clientGiven.has
     /\ input.clientQuery.obj \in
          IF input.clientGiven.has
          THEN {input.clientGiven.obj, SetKey(input.clientGiven.obj, AttachmentKey, TrueValue)}
          ELSE {<<>>}

====
